---- MODULE Spec2Model ----
(***************************************************************************)
(* Model of src/monitor_bot.py: the AlertEngine zone/cooldown state        *)
(* machine and the PriceMonitor that drives it (construction, validation,  *)
(* the immediate start-up checks, the schedule loop, the class check and   *)
(* the notification broadcast).                                            *)
(*                                                                         *)
(* Numbers.  Prices and targets are integers.  threshold_percent is kept   *)
(* in thousandths of a percent (0.05 % is 50, 0.01 % is 10, 0.1 % is 100)  *)
(* so that every comparison of the source is an exact integer comparison;  *)
(* the rounding of Python floats is not modelled.  Times are whole         *)
(* seconds.                                                                *)
(***************************************************************************)
EXTENDS Integers, Sequences, FiniteSets, TLC

VARIABLES
    pc,         \* position of main(): boot, failed, constructed, startup, loop, jobs
    now,        \* the wall clock read by datetime.now(), in seconds
    config,     \* the configuration document loaded by load_config()
    states,     \* AlertEngine.states: (symbol, target) -> AlertState
    channels,   \* NotificationDispatcher.channels
    next_run,   \* schedule: the next run time of each class's job
    queue,      \* the classes still to be checked by the running for-loop
    tick,       \* observation: the last class check (class, symbols asked, prices got)
    log,        \* observation: the should_alert calls of the last class check
    lastSample, \* observation: per key, the last sample should_alert evaluated,
                \* and the thresholds whose band the price has not left since
                \* a call with that threshold returned true
    lastFired,  \* observation: per key, the time of the last call that returned true
    lastFailed, \* observation: per key, whether the broadcast of that call failed
                \* on every channel
    seen        \* observation: what has happened at least once since boot

vars == <<pc, now, config, states, channels, next_run, queue,
          tick, log, lastSample, lastFired, lastFailed, seen>>

----------------------------------------------------------------------------
(* Bounds of the model *)

MaxTime == 4        \* the clock stops here
CooldownSec == 3    \* alert_cooldown_sec of the configuration, in seconds
MaxLatency == 1     \* the longest a fetch takes, in seconds
MaxSkew == 1        \* the most the clock moves between the two datetime.now()
                    \* of one should_alert call, in seconds

----------------------------------------------------------------------------
(* Values *)

NoTime == -1        \* AlertState.last_alert_time = None

AssetTypes == <<"crypto", "stock", "metal">>

Prices == {50010, 50025, 50026}

Asset(ty, sym, tgts, thr, rep) ==
    [type |-> ty, symbol |-> sym, targets |-> tgts,
     threshold_percent |-> thr, allow_repeat_alerts |-> rep]

Key(symbol, target) == <<symbol, target>>

AlertState(in_zone) == [last_in_zone |-> in_zone, last_alert_time |-> NoTime]

Abs(x) == IF x < 0 THEN -x ELSE x

----------------------------------------------------------------------------
(* AlertEngine *)

\* self.states after AlertEngine.__init__: one AlertState per (symbol, target)
\* of the catalog, each outside the zone and never fired.
CatalogKeys(assets) ==
    UNION {{Key(assets[i].symbol, assets[i].targets[j]) :
                j \in DOMAIN assets[i].targets} : i \in DOMAIN assets}

EngineInit(assets) == [k \in CatalogKeys(assets) |-> AlertState(FALSE)]

\* diff_percent = abs(current_price - target) / target * 100
\* currently_in_zone = diff_percent <= threshold_percent
\* (threshold in thousandths of a percent; target > 0, so the division is
\* cleared by multiplying both sides by target; first a faulty variant that
\* leaves the boundary out of the zone)
InZoneStrict(current_price, target, threshold_percent) ==
    Abs(current_price - target) * 100 * 1000 < threshold_percent * target

InZone(current_price, target, threshold_percent) ==
    Abs(current_price - target) * 100 * 1000 <= threshold_percent * target

\* AlertEngine._cooldown_expired, with t the value datetime.now() returns in it
\* (two faulty variants first: a key that fires once and never again, and a
\* cooldown that is never waited for)
CooldownExpiredNever(state, t) == state.last_alert_time = NoTime

CooldownExpiredAlways(state, t) == TRUE

CooldownExpired(state, t) ==
    IF state.last_alert_time = NoTime
    THEN TRUE
    ELSE t - state.last_alert_time >= CooldownSec

\* should_trigger of should_alert (first a faulty variant that fires on the
\* level of the zone signal instead of its rising edge)
ShouldTriggerLevel(state, currently_in_zone, t) ==
    currently_in_zone /\ CooldownExpired(state, t)

ShouldTrigger(state, currently_in_zone, t) ==
    /\ ~state.last_in_zone
    /\ currently_in_zone
    /\ CooldownExpired(state, t)

\* (a third faulty variant: the time is stamped on every evaluation inside
\* the zone, fired or not)
UpdateStampInZone(state, currently_in_zone, should_trigger, t2) ==
    [last_in_zone    |-> currently_in_zone,
     last_alert_time |-> IF currently_in_zone THEN t2 ELSE state.last_alert_time]

\* "Update state AFTER decision": last_in_zone always, last_alert_time on a fire;
\* t2 is the value of the second datetime.now() (first a faulty variant that
\* touches the state only on a fire)
UpdateOnFireOnly(state, currently_in_zone, should_trigger, t2) ==
    IF should_trigger
    THEN [last_in_zone |-> currently_in_zone, last_alert_time |-> t2]
    ELSE state

\* (a second faulty variant: an entry into the zone that the cooldown held
\* back stays pending, and fires on a later sample of the same stay)
UpdatePendingEntry(state, currently_in_zone, should_trigger, t2) ==
    [last_in_zone    |-> currently_in_zone /\ (should_trigger \/ state.last_in_zone),
     last_alert_time |-> IF should_trigger THEN t2 ELSE state.last_alert_time]

UpdateState(state, currently_in_zone, should_trigger, t2) ==
    [last_in_zone    |-> currently_in_zone,
     last_alert_time |-> IF should_trigger THEN t2 ELSE state.last_alert_time]

\* The state should_alert works on: the key's entry, created on first sight
Lookup(sts, key) ==
    IF key \in DOMAIN sts THEN sts[key] ELSE AlertState(FALSE)

\* A faulty variant of should_alert: the cooldown runs from the last fire of
\* any key
ShouldAlertGlobalCooldown(sts, symbol, target, current_price, threshold_percent, t1, t2) ==
    LET key   == Key(symbol, target)
        state == Lookup(sts, key)
        currently_in_zone == InZone(current_price, target, threshold_percent)
        should_trigger    ==
            /\ ~state.last_in_zone
            /\ currently_in_zone
            /\ \A k \in DOMAIN sts : CooldownExpired(sts[k], t1)
        new   == UpdateState(state, currently_in_zone, should_trigger, t2)
    IN  [states |-> [k \in (DOMAIN sts) \cup {key} |->
                        IF k = key THEN new ELSE sts[k]],
         fired  |-> should_trigger]

\* AlertEngine.should_alert: the new self.states and the value returned.
\* t1 is the clock at the cooldown test, t2 the clock when the fire is recorded.
ShouldAlert(sts, symbol, target, current_price, threshold_percent, t1, t2) ==
    LET key   == Key(symbol, target)
        state == Lookup(sts, key)
        currently_in_zone == InZone(current_price, target, threshold_percent)
        should_trigger    == ShouldTrigger(state, currently_in_zone, t1)
        new   == UpdateState(state, currently_in_zone, should_trigger, t2)
    IN  [states |-> [k \in (DOMAIN sts) \cup {key} |->
                        IF k = key THEN new ELSE sts[k]],
         fired  |-> should_trigger]

----------------------------------------------------------------------------
(* NotificationDispatcher *)

SendResults == {"ok", "false", "raise"}

\* NotificationDispatcher.__init__: a channel per supported entry, in order
DispatcherInit(channel_configs) ==
    SelectSeq(channel_configs, LAMBDA ty : ty \in {"telegram", "discord"})

\* A faulty variant of the for-loop of broadcast below: the loop ends at the
\* first channel whose send returns false or raises
RECURSIVE SendAllUntilFailure(_, _, _, _)
SendAllUntilFailure(chs, result, i, attempts) ==
    IF i > Len(chs)
    THEN attempts
    ELSE IF result[i] = "ok"
         THEN SendAllUntilFailure(chs, result, i + 1,
                  Append(attempts, [channel |-> chs[i], result |-> result[i]]))
         ELSE Append(attempts, [channel |-> chs[i], result |-> result[i]])

\* The for-loop of broadcast from channel i on: every channel is sent to,
\* whatever the earlier ones returned or raised.  result[i] is what
\* channel.send does this time.
RECURSIVE SendAll(_, _, _, _)
SendAll(chs, result, i, attempts) ==
    IF i > Len(chs)
    THEN attempts
    ELSE SendAll(chs, result, i + 1,
                 Append(attempts, [channel |-> chs[i], result |-> result[i]]))

\* A faulty variant of broadcast below: no console fallback
BroadcastNoFallback(chs, result) ==
    [console |-> FALSE, attempts |-> SendAll(chs, result, 1, <<>>)]

\* NotificationDispatcher.broadcast: the console fallback when there is no
\* channel, else the send attempts made
Broadcast(chs, result) ==
    IF chs = <<>>
    THEN [console |-> TRUE,  attempts |-> <<>>]
    ELSE [console |-> FALSE, attempts |-> SendAll(chs, result, 1, <<>>)]

NoBroadcast == [console |-> FALSE, attempts |-> <<>>]

----------------------------------------------------------------------------
(* PriceMonitor *)

\* polling_intervals_sec of the configuration, in seconds
PollingIntervals == [crypto |-> 1, stock |-> 2, metal |-> 2]

\* self.asset_groups[asset_type]
AssetGroup(assets, asset_type) ==
    SelectSeq(assets, LAMBDA a : a.type = asset_type)

\* PriceMonitor._validate_config passes (it raises ValueError otherwise);
\* first a faulty variant that admits every threshold above 0
ValidAssetAboveZero(asset) ==
    /\ 0 < asset.threshold_percent
    /\ asset.threshold_percent <= 100
    /\ asset.targets # <<>>

ValidAsset(asset) ==
    /\ 10 <= asset.threshold_percent
    /\ asset.threshold_percent <= 100
    /\ asset.targets # <<>>

ValidConfig(assets) == \A i \in DOMAIN assets : ValidAsset(assets[i])

\* symbols = list({a['symbol'] for a in assets})
Symbols(assets) == {assets[i].symbol : i \in DOMAIN assets}

\* What fetcher.fetch(symbols) can return: a price for some of the symbols
FetchResults(symbols) ==
    UNION {[got -> Prices] : got \in SUBSET symbols}

\* A faulty variant of the pairs below: an asset without a price is not
\* skipped but evaluated at a default price, as with prices.get(symbol, default)
RECURSIVE PairsFromNoSkip(_, _, _)
PairsFromNoSkip(assets, prices, i) ==
    IF i > Len(assets)
    THEN <<>>
    ELSE LET asset == assets[i]
             mine  == [j \in DOMAIN asset.targets |->
                          [asset |-> asset, target |-> asset.targets[j],
                           current_price |-> IF asset.symbol \in DOMAIN prices
                                             THEN prices[asset.symbol] ELSE 40000]]
         IN  mine \o PairsFromNoSkip(assets, prices, i + 1)

\* Another faulty variant of the pairs below: the inner loop ends after the
\* first target of an asset
RECURSIVE PairsFromFirstTarget(_, _, _)
PairsFromFirstTarget(assets, prices, i) ==
    IF i > Len(assets)
    THEN <<>>
    ELSE LET asset == assets[i]
             mine  == IF asset.symbol \in DOMAIN prices /\ asset.targets # <<>>
                      THEN <<[asset |-> asset, target |-> asset.targets[1],
                              current_price |-> prices[asset.symbol]]>>
                      ELSE <<>>
         IN  mine \o PairsFromFirstTarget(assets, prices, i + 1)

\* The (asset, target) pairs the two nested for-loops of _check_assets visit,
\* in order, each with current_price = prices[symbol]; an asset whose symbol
\* is not in prices is skipped ("continue")
RECURSIVE PairsFrom(_, _, _)
PairsFrom(assets, prices, i) ==
    IF i > Len(assets)
    THEN <<>>
    ELSE LET asset == assets[i]
             mine  == IF asset.symbol \in DOMAIN prices
                      THEN [j \in DOMAIN asset.targets |->
                                [asset |-> asset, target |-> asset.targets[j],
                                 current_price |-> prices[asset.symbol]]]
                      ELSE <<>>
         IN  mine \o PairsFrom(assets, prices, i + 1)

\* f with f[k] = v, k added to its domain if new
Put(f, k, v) == [x \in (DOMAIN f) \cup {k} |-> IF x = k THEN v ELSE f[x]]

Get(f, k, default) == IF k \in DOMAIN f THEN f[k] ELSE default

\* Every send of a broadcast failed (returned false or raised)
AllFailed(delivery) ==
    /\ delivery.attempts # <<>>
    /\ \A n \in DOMAIN delivery.attempts : delivery.attempts[n].result # "ok"

\* self.alert_engine.states after the if-branch of _check_assets: the branch
\* formats, broadcasts and logs, and does not look at what broadcast did
\* (first a faulty variant that takes the fire back when no send succeeded)
RollbackOnFailure(before, after, delivery) ==
    IF AllFailed(delivery) THEN before ELSE after

StatesAfterBroadcast(before, after, delivery) == after

\* A faulty variant of the loop body below: allow_repeat_alerts is read, and
\* an asset that sets it is evaluated as if its key had been outside the zone
RECURSIVE EvaluateRepeat(_, _, _, _, _, _)
EvaluateRepeat(pairs, i, chs, skew, result, acc) ==
    IF i > Len(pairs)
    THEN acc
    ELSE LET asset  == pairs[i].asset
             target == pairs[i].target
             key    == Key(asset.symbol, target)
             price  == pairs[i].current_price
             sts    == IF asset.allow_repeat_alerts /\ key \in DOMAIN acc.states
                       THEN [acc.states EXCEPT ![key].last_in_zone = FALSE]
                       ELSE acc.states
             r      == ShouldAlert(sts, asset.symbol, target, price,
                                   asset.threshold_percent,
                                   acc.clock, acc.clock + skew)
             delivery == IF r.fired THEN Broadcast(chs, result) ELSE NoBroadcast
             before == Get(acc.lastSample, key, <<>>)
             bands  == {th \in (IF before = <<>> THEN {} ELSE before[1].bands)
                                  \cup (IF r.fired THEN {asset.threshold_percent}
                                        ELSE {}) :
                           InZone(price, target, th)}
             entry  == [key        |-> key,
                        price      |-> price,
                        threshold  |-> asset.threshold_percent,
                        time       |-> acc.clock,
                        pre        |-> Lookup(acc.states, key),
                        post       |-> r.states[key],
                        frame      |-> \A k \in DOMAIN acc.states :
                                           k # key => r.states[k] = acc.states[k],
                        prev       |-> before,
                        prevFired  |-> Get(acc.lastFired, key, NoTime),
                        prevFailed |-> Get(acc.lastFailed, key, FALSE),
                        fired      |-> r.fired,
                        firedAt    |-> IF r.fired THEN acc.clock + skew ELSE NoTime,
                        delivery   |-> delivery]
         IN  EvaluateRepeat(pairs, i + 1, chs, skew, result,
                 [states     |-> IF r.fired
                                 THEN StatesAfterBroadcast(acc.states, r.states, delivery)
                                 ELSE r.states,
                  clock      |-> IF r.fired THEN acc.clock + skew ELSE acc.clock,
                  log        |-> Append(acc.log, entry),
                  lastSample |-> Put(acc.lastSample, key,
                                     <<[price |-> price,
                                        threshold |-> asset.threshold_percent,
                                        bands |-> bands]>>),
                  lastFired  |-> IF r.fired
                                 THEN Put(acc.lastFired, key, acc.clock + skew)
                                 ELSE acc.lastFired,
                  lastFailed |-> IF r.fired
                                 THEN Put(acc.lastFailed, key, AllFailed(delivery))
                                 ELSE acc.lastFailed])

\* The body of the inner for-loop of _check_assets for pairs[i..]: should_alert
\* and, when it returns true, broadcast.  acc carries self.alert_engine.states,
\* the clock, and the observations of the calls made.
RECURSIVE Evaluate(_, _, _, _, _, _)
Evaluate(pairs, i, chs, skew, result, acc) ==
    IF i > Len(pairs)
    THEN acc
    ELSE LET asset  == pairs[i].asset
             target == pairs[i].target
             key    == Key(asset.symbol, target)
             price  == pairs[i].current_price
             r      == ShouldAlert(acc.states, asset.symbol, target, price,
                                   asset.threshold_percent,
                                   acc.clock, acc.clock + skew)
             delivery == IF r.fired THEN Broadcast(chs, result) ELSE NoBroadcast
             before == Get(acc.lastSample, key, <<>>)
             bands  == {th \in (IF before = <<>> THEN {} ELSE before[1].bands)
                                  \cup (IF r.fired THEN {asset.threshold_percent}
                                        ELSE {}) :
                           InZone(price, target, th)}
             entry  == [key        |-> key,
                        price      |-> price,
                        threshold  |-> asset.threshold_percent,
                        time       |-> acc.clock,
                        pre        |-> Lookup(acc.states, key),
                        post       |-> r.states[key],
                        frame      |-> \A k \in DOMAIN acc.states :
                                           k # key => r.states[k] = acc.states[k],
                        prev       |-> before,
                        prevFired  |-> Get(acc.lastFired, key, NoTime),
                        prevFailed |-> Get(acc.lastFailed, key, FALSE),
                        fired      |-> r.fired,
                        firedAt    |-> IF r.fired THEN acc.clock + skew ELSE NoTime,
                        delivery   |-> delivery]
         IN  Evaluate(pairs, i + 1, chs, skew, result,
                 [states     |-> IF r.fired
                                 THEN StatesAfterBroadcast(acc.states, r.states, delivery)
                                 ELSE r.states,
                  clock      |-> IF r.fired THEN acc.clock + skew ELSE acc.clock,
                  log        |-> Append(acc.log, entry),
                  lastSample |-> Put(acc.lastSample, key,
                                     <<[price |-> price,
                                        threshold |-> asset.threshold_percent,
                                        bands |-> bands]>>),
                  lastFired  |-> IF r.fired
                                 THEN Put(acc.lastFired, key, acc.clock + skew)
                                 ELSE acc.lastFired,
                  lastFailed |-> IF r.fired
                                 THEN Put(acc.lastFailed, key, AllFailed(delivery))
                                 ELSE acc.lastFailed])

\* PriceMonitor._check_assets(asset_type), the whole call
CheckAssets(asset_type) ==
    LET assets == AssetGroup(config.assets, asset_type)
    IN  IF assets = <<>>
        THEN \* "if not assets: return"
             /\ tick' = [asset_type |-> asset_type, symbols |-> {},
                         fetched |-> FALSE, prices |-> <<>>]
             /\ log' = <<>>
             /\ UNCHANGED <<now, states, lastSample, lastFired, lastFailed, seen>>
        ELSE \E prices \in FetchResults(Symbols(assets)),
                lat \in 0..MaxLatency, skew \in 0..MaxSkew,
                result \in [1..Len(channels) -> SendResults] :
             LET pairs == IF DOMAIN prices = {}
                          THEN <<>>    \* "if not prices: return"
                          ELSE PairsFrom(assets, prices, 1)
             IN  \E out \in {Evaluate(pairs, 1, channels, skew, result,
                                [states |-> states, clock |-> now + lat,
                                 log |-> <<>>, lastSample |-> lastSample,
                                 lastFired |-> lastFired,
                                 lastFailed |-> lastFailed])} :
                 /\ out.clock <= MaxTime
                 /\ now' = out.clock
                 /\ states' = out.states
                 /\ log' = out.log
                 /\ lastSample' = out.lastSample
                 /\ lastFired' = out.lastFired
                 /\ lastFailed' = out.lastFailed
                 /\ tick' = [asset_type |-> asset_type,
                             symbols |-> Symbols(assets), fetched |-> TRUE,
                             prices |-> prices]
                 /\ seen' = [fetched   |-> TRUE,
                             evaluated |-> seen.evaluated \/ out.log # <<>>,
                             broadcast |-> seen.broadcast \/
                                 \E n \in DOMAIN out.log : out.log[n].fired]

----------------------------------------------------------------------------
(* The configurations main() is run on *)

Telegram == <<"telegram">>

Configs ==
    { \* two classes, and no supported channel
      [assets |-> <<Asset("crypto", "BTC", <<50000>>, 50, FALSE),
                    Asset("metal", "GC=F", <<50050>>, 50, FALSE)>>,
       notification_channels |-> <<"sms">>],
      \* two assets on one (symbol, target), with different thresholds
      [assets |-> <<Asset("crypto", "BTC", <<50000>>, 50, FALSE),
                    Asset("crypto", "BTC", <<50000>>, 20, TRUE)>>,
       notification_channels |-> <<"telegram", "discord">>],
      \* two symbols of one class, the largest and the smallest threshold
      \* admitted, one channel
      [assets |-> <<Asset("stock", "AAPL", <<50000>>, 100, FALSE),
                    Asset("stock", "MSFT", <<50025>>, 10, FALSE)>>,
       notification_channels |-> Telegram],
      \* an asset with two targets, and no channel at all
      [assets |-> <<Asset("crypto", "BTC", <<50000, 50050>>, 50, FALSE)>>,
       notification_channels |-> <<>>],
      \* configurations _validate_config rejects
      [assets |-> <<Asset("crypto", "BTC", <<50000>>, 0, FALSE)>>,
       notification_channels |-> Telegram],
      [assets |-> <<Asset("crypto", "BTC", <<50000>>, 5, FALSE)>>,
       notification_channels |-> Telegram],
      [assets |-> <<Asset("crypto", "BTC", <<50000>>, 101, FALSE)>>,
       notification_channels |-> Telegram],
      [assets |-> <<Asset("crypto", "BTC", <<>>, 50, FALSE)>>,
       notification_channels |-> Telegram],
      [assets |-> <<Asset("crypto", "BTC", <<50000>>, 50, FALSE),
                    Asset("stock", "AAPL", <<>>, 50, FALSE)>>,
       notification_channels |-> Telegram] }

----------------------------------------------------------------------------
(* main() *)

NoTick == [asset_type |-> "", symbols |-> {}, fetched |-> FALSE,
           prices |-> <<>>]

Init ==
    /\ pc = "boot"
    /\ now = 0
    /\ config \in Configs
    /\ states = <<>>
    /\ channels = <<>>
    /\ next_run = [c \in {"crypto", "stock", "metal"} |-> NoTime]
    /\ queue = <<>>
    /\ tick = NoTick
    /\ log = <<>>
    /\ lastSample = <<>>
    /\ lastFired = <<>>
    /\ lastFailed = <<>>
    /\ seen = [fetched |-> FALSE, evaluated |-> FALSE, broadcast |-> FALSE]

\* A faulty variant of the construction below: nothing is validated
ConstructUnchecked ==
    /\ pc = "boot"
    /\ states' = EngineInit(config.assets)
    /\ channels' = DispatcherInit(config.notification_channels)
    /\ lastSample' = [k \in CatalogKeys(config.assets) |-> <<>>]
    /\ lastFired' = [k \in CatalogKeys(config.assets) |-> NoTime]
    /\ lastFailed' = [k \in CatalogKeys(config.assets) |-> FALSE]
    /\ pc' = "constructed"
    /\ UNCHANGED <<now, config, next_run, queue, tick, log, seen>>

\* monitor = PriceMonitor(config): the engine and the dispatcher are built,
\* then _validate_config either returns or raises; main() catches the
\* exception, logs it and returns.
Construct ==
    /\ pc = "boot"
    /\ states' = EngineInit(config.assets)
    /\ channels' = DispatcherInit(config.notification_channels)
    /\ lastSample' = [k \in CatalogKeys(config.assets) |-> <<>>]
    /\ lastFired' = [k \in CatalogKeys(config.assets) |-> NoTime]
    /\ lastFailed' = [k \in CatalogKeys(config.assets) |-> FALSE]
    /\ pc' = IF ValidConfig(config.assets) THEN "constructed" ELSE "failed"
    /\ UNCHANGED <<now, config, next_run, queue, tick, log, seen>>

\* A faulty variant of start() below: the immediate check is made for every
\* class, with assets or without
StartAllClasses ==
    /\ pc = "constructed"
    /\ next_run' = [c \in DOMAIN next_run |-> now + PollingIntervals[c]]
    /\ queue' = AssetTypes
    /\ pc' = "startup"
    /\ UNCHANGED <<now, config, states, channels, tick, log,
                   lastSample, lastFired, lastFailed, seen>>

\* monitor.start() up to the for-loop of the immediate checks: the three jobs
\* are registered, each first due one interval from now
Start ==
    /\ pc = "constructed"
    /\ next_run' = [c \in DOMAIN next_run |-> now + PollingIntervals[c]]
    /\ queue' = SelectSeq(AssetTypes,
                    LAMBDA c : AssetGroup(config.assets, c) # <<>>)
    /\ pc' = "startup"
    /\ UNCHANGED <<now, config, states, channels, tick, log,
                   lastSample, lastFired, lastFailed, seen>>

\* one turn of "for asset_type in [...]: if self.asset_groups[asset_type]:
\* self._check_assets(asset_type)"
ImmediateCheck ==
    /\ pc = "startup"
    /\ queue # <<>>
    /\ CheckAssets(Head(queue))
    /\ queue' = Tail(queue)
    /\ UNCHANGED <<pc, config, channels, next_run>>

\* The jobs schedule.run_pending() runs: those due, by next run time (ties
\* in the order they were registered)
RECURSIVE SortJobs(_)
SortJobs(due) ==
    IF due = {}
    THEN <<>>
    ELSE LET first == CHOOSE c \in due : \A d \in due :
                          \/ next_run[c] < next_run[d]
                          \/ /\ next_run[c] = next_run[d]
                             /\ \A i, j \in DOMAIN AssetTypes :
                                    AssetTypes[i] = c /\ AssetTypes[j] = d => i <= j
         IN  <<first>> \o SortJobs(due \ {first})

\* "while True: schedule.run_pending()": the due jobs are collected
RunPending ==
    /\ \/ pc = "startup" /\ queue = <<>>
       \/ pc = "loop"
    /\ queue' = SortJobs({c \in DOMAIN next_run : now >= next_run[c]})
    /\ pc' = "jobs"
    /\ UNCHANGED <<now, config, states, channels, next_run, tick, log,
                   lastSample, lastFired, lastFailed, seen>>

\* A faulty variant of the job run below: a job whose fetch returned no price
\* is not scheduled again
RunJobDropOnFailure ==
    /\ pc = "jobs"
    /\ queue # <<>>
    /\ CheckAssets(Head(queue))
    /\ next_run' = IF tick'.fetched /\ DOMAIN tick'.prices = {}
                   THEN next_run
                   ELSE [next_run EXCEPT
                            ![Head(queue)] = now' + PollingIntervals[Head(queue)]]
    /\ queue' = Tail(queue)
    /\ UNCHANGED <<pc, config, channels>>

\* run_pending runs one due job, "lambda: self._check_assets(c)", and
\* schedules its next run one interval after it returned
RunJob ==
    /\ pc = "jobs"
    /\ queue # <<>>
    /\ CheckAssets(Head(queue))
    /\ next_run' = [next_run EXCEPT ![Head(queue)] = now' + PollingIntervals[Head(queue)]]
    /\ queue' = Tail(queue)
    /\ UNCHANGED <<pc, config, channels>>

\* run_pending has returned: time.sleep(1)
Sleep ==
    /\ pc = "jobs"
    /\ queue = <<>>
    /\ now < MaxTime
    /\ now' = now + 1
    /\ pc' = "loop"
    /\ UNCHANGED <<config, states, channels, next_run, queue, tick, log,
                   lastSample, lastFired, lastFailed, seen>>

Next ==
    \/ Construct
    \/ Start
    \/ ImmediateCheck
    \/ RunPending
    \/ RunJob
    \/ Sleep

Spec == Init /\ [][Next]_vars

----------------------------------------------------------------------------
(* Properties of the alert state machine *)

\* A sample is inside the zone of a target: |price - target| / target * 100
\* is at most the tolerance (in thousandths of a percent), boundary included
Inside(price, target, tolerance) ==
    IF price >= target
    THEN (price - target) * 100000 <= tolerance * target
    ELSE (target - price) * 100000 <= tolerance * target

Entries == {log[n] : n \in DOMAIN log}

\* The call was made with the tolerance of the previous call for its key
SameTolerance(e) == e.prev = <<>> \/ e.prev[1].threshold = e.threshold

\* The previous sample evaluated for the key of e was inside its zone
PrevInside(e) ==
    /\ e.prev # <<>>
    /\ Inside(e.prev[1].price, e.key[2], e.prev[1].threshold)

\* At the time of call e, CooldownSec had passed since the last fire of its key
CooledDown(e) == e.prevFired = NoTime \/ e.time - e.prevFired >= CooldownSec

\* C1: for a key evaluated with a fixed tolerance, should_alert returns true
\* for a sample if and only if the previous sample evaluated for the key was
\* outside the zone (or there was none), the sample is inside the zone
\* (boundary included), and the key never fired or cooldown_sec have passed
\* since its last fire.
C1_FiresIffEntryAndCooldown ==
    \A e \in Entries :
        SameTolerance(e) =>
            (e.fired <=> /\ ~PrevInside(e)
                         /\ Inside(e.price, e.key[2], e.threshold)
                         /\ CooledDown(e))

\* A fire on a sample lying exactly on the boundary of the zone
C1_Witness ==
    \E e \in Entries :
        /\ e.fired
        /\ SameTolerance(e)
        /\ (e.price - e.key[2]) * 100000 = e.threshold * e.key[2]

\* C2: under a non-decreasing clock no two fires of one key are less than
\* cooldown_sec apart, however often the price left and re-entered the zone.
C2_FiresCooldownApart ==
    \A e \in Entries :
        e.fired /\ e.prevFired # NoTime => e.firedAt - e.prevFired >= CooldownSec

\* A key fires for the second time
C2_Witness ==
    \E e \in Entries : e.fired /\ e.prevFired # NoTime

\* C3: of consecutive samples of a key that are all inside the zone only the
\* first can fire: a sample inside the zone whose predecessor was inside the
\* zone never fires, even when the cooldown has expired meanwhile.
C3_NoFireWhileInside ==
    \A e \in Entries :
        PrevInside(e) /\ Inside(e.price, e.key[2], e.threshold) => ~e.fired

\* A sample inside the zone, after one inside the zone, with the cooldown of
\* the key's fire expired
C3_Witness ==
    \E e \in Entries :
        /\ PrevInside(e)
        /\ Inside(e.price, e.key[2], e.threshold)
        /\ e.prevFired # NoTime
        /\ e.time - e.prevFired >= CooldownSec
        /\ ~e.fired

\* C4: for a key that has fired, a sample inside the zone that follows a
\* sample outside the zone, evaluated cooldown_sec or more after the last
\* fire, fires; and the sample after it, if inside the zone, does not.
C4_RefiresOnReentryAfterCooldown ==
    \A e \in Entries :
        /\ ( /\ e.prevFired # NoTime
             /\ e.prev # <<>>
             /\ ~PrevInside(e)
             /\ Inside(e.price, e.key[2], e.threshold)
             /\ e.time - e.prevFired >= CooldownSec ) => e.fired
        /\ ( /\ e.prevFired # NoTime
             /\ PrevInside(e)
             /\ Inside(e.price, e.key[2], e.threshold) ) => ~e.fired

\* A key fires again on re-entering the zone
C4_Witness ==
    \E e \in Entries :
        /\ e.fired
        /\ e.prevFired # NoTime
        /\ e.prev # <<>>
        /\ ~PrevInside(e)

\* C5: the key's last_in_zone is the zone membership of the last sample
\* evaluated for it (false when none was), whether or not the call fired.
C5_InZoneIsLastSample ==
    \A k \in DOMAIN states :
        states[k].last_in_zone <=>
            /\ lastSample[k] # <<>>
            /\ Inside(lastSample[k][1].price, k[2], lastSample[k][1].threshold)

\* A key is in the zone by a sample that did not fire because of the cooldown
C5_Witness ==
    \E e \in Entries :
        /\ ~e.fired
        /\ ~PrevInside(e)
        /\ Inside(e.price, e.key[2], e.threshold)
        /\ states[e.key].last_in_zone
        /\ lastSample[e.key][1].price = e.price
        /\ lastSample[e.key][1].threshold = e.threshold

----------------------------------------------------------------------------
(* Properties of the monitor *)

\* C6: a class check in which a symbol is absent from the fetched prices
\* (also when no price at all came back) calls should_alert for no key of
\* that symbol and leaves the AlertState of every key of it as it was.
C6_MissingSymbolLeavesStateAlone ==
    [][\A s \in tick'.symbols \ DOMAIN tick'.prices :
          /\ \A k \in DOMAIN states : k[1] = s => states'[k] = states[k]
          /\ \A n \in DOMAIN log' : log'[n].key[1] # s]_vars

\* A check in which one symbol of the class got a price and another, whose key
\* had fired before, got none
C6_Witness ==
    /\ tick.fetched
    /\ DOMAIN tick.prices # {}
    /\ \E s \in tick.symbols \ DOMAIN tick.prices :
          \E k \in DOMAIN states :
              /\ k[1] = s
              /\ states[k].last_in_zone
              /\ states[k].last_alert_time # NoTime

\* The catalog has an asset with a tolerance below 0.01 % or above 0.1 %, or
\* without a target
OutOfRange(assets) ==
    \E i \in DOMAIN assets :
        \/ assets[i].threshold_percent < 10
        \/ assets[i].threshold_percent > 100
        \/ Len(assets[i].targets) = 0

\* C7 as stated, the admissible tolerances being those of (0, 0.1]:
\* construction raises exactly when some asset has tolerance 0, a tolerance
\* above 0.1, or no target.
C7_RaisesIffZeroOrAboveMaxOrNoTarget ==
    pc # "boot" =>
        (pc = "failed" <=>
            \E i \in DOMAIN config.assets :
                \/ config.assets[i].threshold_percent <= 0
                \/ config.assets[i].threshold_percent > 100
                \/ Len(config.assets[i].targets) = 0)

\* C7, amended: the validation of the constructor raises exactly when some
\* asset has a tolerance below 0.01 (0 included) or above 0.1, or no target;
\* the admissible tolerances are those of [0.01, 0.1].
C7_RaisesIffOutOfRange ==
    pc # "boot" => (pc = "failed" <=> OutOfRange(config.assets))

\* Construction has failed on a tolerance between 0 and 0.01
C7_Witness ==
    /\ pc = "failed"
    /\ \A i \in DOMAIN config.assets :
          /\ config.assets[i].threshold_percent > 0
          /\ config.assets[i].threshold_percent < 10
          /\ config.assets[i].targets # <<>>

\* C8: with an invalid configuration main() never gets past the constructor:
\* nothing is scheduled, fetched, evaluated or broadcast; start() is reached
\* only with a configuration that passed validation.
C8_FailFast ==
    /\ OutOfRange(config.assets) =>
          /\ pc \in {"boot", "failed"}
          /\ ~seen.fetched /\ ~seen.evaluated /\ ~seen.broadcast
          /\ tick = NoTick /\ log = <<>>
          /\ \A c \in DOMAIN next_run : next_run[c] = NoTime
          /\ \A k \in DOMAIN states : states[k] = AlertState(FALSE)
    /\ pc \in {"startup", "loop", "jobs"} => ~OutOfRange(config.assets)

\* main() has stopped in the constructor
C8_Witness == pc = "failed" /\ OutOfRange(config.assets)

\* The state of the key of log[n] when call n and its broadcast were over:
\* what the next call for the key found, or what the check left behind
StateLeftBy(n) ==
    LET later == {m \in DOMAIN log : m > n /\ log[m].key = log[n].key}
    IN  IF later = {}
        THEN states[log[n].key]
        ELSE log[CHOOSE m \in later : \A x \in later : m <= x].pre

\* C9: a fire whose broadcast failed on every channel (send returned false or
\* raised) stays recorded: the key is in the zone with last_alert_time the
\* time of the fire; and a key whose last fire was not delivered fires again
\* only on a new entry into the zone with the cooldown passed, as after a
\* delivered alert.
C9_UndeliveredFireStaysRecorded ==
    /\ \A n \in DOMAIN log :
          log[n].fired /\ AllFailed(log[n].delivery) =>
              StateLeftBy(n) = [last_in_zone |-> TRUE,
                                last_alert_time |-> log[n].firedAt]
    /\ \A e \in Entries :
          e.prevFailed =>
              (e.fired <=> /\ ~PrevInside(e)
                           /\ Inside(e.price, e.key[2], e.threshold)
                           /\ e.time - e.prevFired >= CooldownSec)

\* After a fire that no channel delivered, a sample inside the zone that does
\* not fire
C9_Witness ==
    \E e \in Entries :
        /\ e.prevFailed
        /\ Inside(e.price, e.key[2], e.threshold)
        /\ ~e.fired

\* C10: should_alert on a key reads and writes the AlertState of that key
\* only: every other key's state is left as it was, and the call fires exactly
\* when the key's own state was outside the zone, the sample is inside, and
\* the key's own last fire is absent or cooldown_sec old.
C10_CooldownIsPerKey ==
    \A e \in Entries :
        /\ e.frame
        /\ e.fired <=>
              /\ ~e.pre.last_in_zone
              /\ Inside(e.price, e.key[2], e.threshold)
              /\ \/ e.pre.last_alert_time = NoTime
                 \/ e.time - e.pre.last_alert_time >= CooldownSec

\* A key fires less than cooldown_sec after a different key fired
C10_Witness ==
    \E e \in Entries :
        /\ e.fired
        /\ \E k \in DOMAIN lastFired :
              /\ k # e.key
              /\ lastFired[k] # NoTime
              /\ lastFired[k] <= e.firedAt
              /\ e.firedAt - lastFired[k] < CooldownSec

----------------------------------------------------------------------------
(* Properties of the monitor, continued *)

\* C11 as stated: every entry into the zone is notified, on its sample or on
\* a later sample of the same stay in the zone; so a stay in the zone that
\* began after a sample outside the zone has been notified when it ends.
C11_EveryReentryNotified ==
    \A e \in Entries :
        SameTolerance(e) /\ PrevInside(e) /\ ~Inside(e.price, e.key[2], e.threshold)
            => e.threshold \in e.prev[1].bands

\* C11, amended: a sample inside the zone that follows a sample outside the
\* zone fires exactly when the key never fired or cooldown_sec have passed
\* since its last fire; an entry into the zone during the cooldown is not
\* notified, neither on its sample nor on a later sample of the same stay.
C11_ReentryNotifiedUnlessCoolingDown ==
    \A e \in Entries :
        /\ (e.prev # <<>> /\ ~PrevInside(e) /\ Inside(e.price, e.key[2], e.threshold))
              => (e.fired <=> CooledDown(e))
        /\ ( /\ SameTolerance(e)
             /\ PrevInside(e)
             /\ e.threshold \notin e.prev[1].bands
             /\ Inside(e.price, e.key[2], e.threshold) ) => ~e.fired

\* A stay in the zone that began during the cooldown goes on, its cooldown
\* over, without a notification
C11_Witness ==
    \E e \in Entries :
        /\ SameTolerance(e)
        /\ PrevInside(e)
        /\ e.threshold \notin e.prev[1].bands
        /\ Inside(e.price, e.key[2], e.threshold)
        /\ e.time - e.prevFired >= CooldownSec
        /\ ~e.fired

\* The catalog with allow_repeat_alerts of asset i set to f[i]
WithFlags(assets, f) ==
    [i \in DOMAIN assets |-> [assets[i] EXCEPT !.allow_repeat_alerts = f[i]]]

\* The evaluation recorded as e, made again for an asset from the AlertState
\* it found, at the same times
Replay(e, asset, skew) ==
    Evaluate(<<[asset |-> asset, target |-> e.key[2], current_price |-> e.price]>>,
             1, channels, skew, [n \in DOMAIN channels |-> "ok"],
             [states |-> [k \in {e.key} |-> e.pre], clock |-> e.time,
              log |-> <<>>, lastSample |-> <<>>, lastFired |-> <<>>,
              lastFailed |-> <<>>])

\* C12: allow_repeat_alerts is inert.  Two runs whose catalogs differ only in
\* the flag start from the same AlertStates, accept or reject the
\* configuration alike and group the same assets; and every evaluation of a
\* run, made again from the same AlertState on the same price at the same
\* times with the flag of its asset set either way, makes the same fire
\* decision and leaves the same AlertState.
C12_FlagIsInert ==
    /\ \A f \in [DOMAIN config.assets -> BOOLEAN] :
          LET other == WithFlags(config.assets, f)
          IN  /\ EngineInit(other) = EngineInit(config.assets)
              /\ ValidConfig(other) = ValidConfig(config.assets)
              /\ \A n \in DOMAIN AssetTypes :
                    LET mine   == AssetGroup(config.assets, AssetTypes[n])
                        theirs == AssetGroup(other, AssetTypes[n])
                    IN  /\ DOMAIN theirs = DOMAIN mine
                        /\ \A m \in DOMAIN mine :
                              [theirs[m] EXCEPT !.allow_repeat_alerts =
                                   mine[m].allow_repeat_alerts] = mine[m]
    /\ \A e \in Entries, i \in DOMAIN config.assets, flag \in BOOLEAN :
          ( /\ config.assets[i].symbol = e.key[1]
            /\ config.assets[i].threshold_percent = e.threshold )
          => \A skew \in (IF e.fired THEN {e.firedAt - e.time} ELSE 0..MaxSkew) :
                LET again == Replay(e, [config.assets[i] EXCEPT
                                            !.allow_repeat_alerts = flag], skew)
                IN  /\ again.log[1].fired = e.fired
                    /\ again.states[e.key] = e.post

\* An asset that sets allow_repeat_alerts was evaluated inside the zone once
\* more, its cooldown over, and did not fire
C12_Witness ==
    /\ pc \in {"startup", "loop", "jobs"}
    /\ \E i \in DOMAIN config.assets, e \in Entries :
          /\ config.assets[i].allow_repeat_alerts
          /\ e.key[1] = config.assets[i].symbol
          /\ e.threshold = config.assets[i].threshold_percent
          /\ PrevInside(e)
          /\ Inside(e.price, e.key[2], e.threshold)
          /\ CooledDown(e)
          /\ ~e.fired

\* A step that runs _check_assets for the class at the head of the queue
CheckStep ==
    /\ pc \in {"startup", "jobs"}
    /\ queue # <<>>
    /\ queue' = Tail(queue)

\* C13: a class-tick whose fetch returns no price at all evaluates nothing and
\* dispatches nothing, leaves every AlertState as it was and does not stop
\* the monitor; the class stays scheduled, its next run one interval after
\* the failed one (after start(), for an immediate check); and a tick whose
\* fetch returns prices evaluates every symbol it has a price for.
C13_FetchFailureSkipsTickOnly ==
    [][ /\ ( CheckStep /\ tick'.fetched /\ DOMAIN tick'.prices = {} )
            => /\ log' = <<>>
               /\ states' = states
               /\ seen'.evaluated = seen.evaluated
               /\ seen'.broadcast = seen.broadcast
               /\ pc' = pc
               /\ \A c \in DOMAIN next_run :
                     next_run'[c] = IF pc = "jobs" /\ c = Head(queue)
                                    THEN now' + PollingIntervals[c]
                                    ELSE next_run[c]
        /\ ( CheckStep /\ tick'.fetched )
            => \A sym \in DOMAIN tick'.prices :
                  \E n \in DOMAIN log' : /\ log'[n].key[1] = sym
                                         /\ log'[n].price = tick'.prices[sym]
      ]_vars

\* A job of the timer-driven loop (its class has been rescheduled since
\* start()) evaluates the only symbol of its class for the first time: every
\* earlier tick of the class, the immediate one included, had come back
\* without a price
C13_Witness ==
    /\ pc = "jobs"
    /\ tick.fetched
    /\ next_run[tick.asset_type] > PollingIntervals[tick.asset_type]
    /\ \E e \in Entries : /\ tick.symbols = {e.key[1]}
                          /\ e.prev = <<>>
                          /\ e.fired

\* The class has at least one asset in the catalog
HasAssets(c) == \E i \in DOMAIN config.assets : config.assets[i].type = c

\* C14: start() lines up exactly one immediate check for every class with
\* an asset, and none for a class without; each of them runs, with a fetch,
\* before the timer-driven loop begins; and a check of a class without
\* assets, whenever its job runs, fetches nothing, evaluates nothing and
\* changes nothing.
C14_OneImmediateCheckPerNonEmptyClass ==
    [][ /\ (pc = "constructed" /\ pc' = "startup")
            => \A n \in DOMAIN AssetTypes :
                  Cardinality({m \in DOMAIN queue' : queue'[m] = AssetTypes[n]})
                      = IF HasAssets(AssetTypes[n]) THEN 1 ELSE 0
        /\ (pc = "startup" /\ queue # <<>>)
            => /\ pc' = "startup"
               /\ queue' = Tail(queue)
               /\ tick'.asset_type = Head(queue)
               /\ tick'.fetched
        /\ (pc = "startup" /\ pc' # "startup") => queue = <<>>
        /\ (CheckStep /\ ~HasAssets(Head(queue)))
            => /\ tick'.asset_type = Head(queue)
               /\ ~tick'.fetched
               /\ log' = <<>>
               /\ states' = states
               /\ seen' = seen
               /\ now' = now
      ]_vars

\* In the timer-driven loop the job of a class without assets has run, and
\* fetched nothing, after the immediate checks of the other classes
C14_Witness ==
    /\ pc = "jobs"
    /\ ~HasAssets(tick.asset_type)
    /\ tick.asset_type \in DOMAIN next_run
    /\ ~tick.fetched
    /\ seen.fetched

\* C15 as stated: a fetch of one class that takes time and returns nothing
\* delays no other class; no other class with assets is left with a run that
\* came due before the fetch returned and has not started.
C15_FetchDelaysNoOtherClass ==
    [][ (CheckStep /\ tick'.fetched /\ log' = <<>> /\ now' > now)
            => \A c \in DOMAIN next_run :
                  (c # Head(queue) /\ HasAssets(c)) => next_run[c] >= now'
      ]_vars

\* C16: no alert is dropped silently.  Every evaluation that fired was
\* broadcast: each channel of the dispatcher got a send attempt, and with no
\* channel the message went to the console.
C16_EveryFireIsBroadcast ==
    \A e \in Entries :
        e.fired =>
            /\ channels = <<>> => e.delivery.console
            /\ \A n \in DOMAIN channels :
                  \E m \in DOMAIN e.delivery.attempts :
                      e.delivery.attempts[m].channel = channels[n]

\* A fire with no channel to send to went to the console
C16_Witness ==
    \E e \in Entries : /\ e.fired
                        /\ channels = <<>>
                        /\ e.delivery.console
                        /\ e.delivery.attempts = <<>>

\* The (asset, target) pairs of the class of the last tick whose symbol the
\* fetch returned a price for, as <<index of the asset, index of the target>>
PricedPairs ==
    LET assets == AssetGroup(config.assets, tick.asset_type)
    IN  UNION {{<<i, j>> : j \in DOMAIN assets[i].targets} :
                  i \in {i \in DOMAIN assets : assets[i].symbol \in DOMAIN tick.prices}}

\* C17: a delivery failure stays with its channel.  A broadcast makes exactly
\* one send attempt per channel, in the order of the configuration, whatever
\* the attempts return or raise; and the tick goes on: every pair with a
\* price is evaluated, whatever became of the broadcasts before it.
C17_DeliveryFailureIsIsolated ==
    /\ \A e \in Entries :
          e.fired =>
              /\ Len(e.delivery.attempts) = Len(channels)
              /\ \A n \in DOMAIN channels :
                    e.delivery.attempts[n].channel = channels[n]
    /\ tick.fetched => Len(log) = Cardinality(PricedPairs)

\* The first channel raised, the second was still sent to, and the next
\* pair of the tick was evaluated
C17_Witness ==
    \E n \in DOMAIN log :
        /\ log[n].fired
        /\ Len(log[n].delivery.attempts) = 2
        /\ log[n].delivery.attempts[1].result = "raise"
        /\ log[n].delivery.attempts[2].result = "ok"
        /\ n < Len(log)

\* The place of pair p among the priced pairs, in catalog order: assets in
\* the order of the catalog, the targets of an asset in the order of its list
Rank(p) ==
    1 + Cardinality({q \in PricedPairs :
                        q[1] < p[1] \/ (q[1] = p[1] /\ q[2] < p[2])})

\* C18: a tick of a class with assets makes one fetch, for the set of the
\* symbols of the class, and then one should_alert call for each (asset,
\* target) pair of the class whose symbol the fetch returned a price for, in
\* catalog order, at that price and with the tolerance of the asset, whether
\* or not an earlier pair fired.
C18_OneFetchThenEveryPricedPairInOrder ==
    LET assets == AssetGroup(config.assets, tick.asset_type)
    IN  /\ tick.fetched <=> (tick # NoTick /\ assets # <<>>)
        /\ tick.fetched =>
              /\ tick.symbols = {assets[i].symbol : i \in DOMAIN assets}
              /\ DOMAIN tick.prices \subseteq tick.symbols
              /\ Len(log) = Cardinality(PricedPairs)
              /\ \A p \in PricedPairs :
                    LET e == log[Rank(p)]
                    IN  /\ e.key = Key(assets[p[1]].symbol, assets[p[1]].targets[p[2]])
                        /\ e.threshold = assets[p[1]].threshold_percent
                        /\ e.price = tick.prices[assets[p[1]].symbol]

\* A pair fired and the pair after it, of another key, was evaluated
C18_Witness ==
    /\ tick.fetched
    /\ \E n \in DOMAIN log : /\ n < Len(log)
                             /\ log[n].fired
                             /\ log[n + 1].key # log[n].key

\* C19 as stated: while the price stays inside the band of an asset, tick
\* after tick, at most one notification is sent for the asset's (symbol,
\* target); no evaluation fires with a tolerance whose band the price has
\* not left since an earlier fire of the key with that tolerance.
C19_OneNotificationPerStayInBand ==
    \A e \in Entries :
        (e.fired /\ e.prev # <<>>) => e.threshold \notin e.prev[1].bands

\* The (symbol, target) keys of the catalog
KeysOfCatalog ==
    UNION {{<<config.assets[i].symbol, config.assets[i].targets[j]>> :
               j \in DOMAIN config.assets[i].targets} : i \in DOMAIN config.assets}

\* C20: construction gives every key of the catalog an AlertState outside
\* the zone with last_alert_time unset; from then on every key of the catalog
\* has a state, whose last_alert_time is what the run recorded as the time
\* of the latest true return of should_alert for the key (unset while there
\* was none); last_alert_time never decreases, and a step changes it only by an
\* evaluation of the key that fired, to the time of that fire.
C20_LastAlertTimeIsLatestFire ==
    [][ /\ (pc = "boot" /\ pc' # "boot")
            => \A k \in KeysOfCatalog :
                  /\ k \in DOMAIN states'
                  /\ states'[k] = [last_in_zone |-> FALSE, last_alert_time |-> NoTime]
        /\ pc' # "boot"
            => \A k \in KeysOfCatalog :
                  /\ k \in DOMAIN states'
                  /\ states'[k].last_alert_time = lastFired'[k]
        /\ pc # "boot"
            => \A k \in KeysOfCatalog :
                  /\ states'[k].last_alert_time >= states[k].last_alert_time
                  /\ states'[k].last_alert_time # states[k].last_alert_time
                        => \E n \in DOMAIN log' :
                              /\ log'[n].key = k
                              /\ log'[n].fired
                              /\ log'[n].firedAt = states'[k].last_alert_time
                              /\ log'[n].firedAt >= now
      ]_vars

\* A key fired for the second time, later than the first, and its
\* last_alert_time is the time of the second fire
C20_Witness ==
    \E e \in Entries :
        /\ e.fired
        /\ e.prevFired # NoTime
        /\ e.firedAt > e.prevFired
        /\ e.pre.last_alert_time = e.prevFired
        /\ states[e.key].last_alert_time = e.firedAt

====
